---- MODULE Spec2Model ----
(***************************************************************************)
(* A model of the three independent programs of the repository:            *)
(*   - the Next.js / MongoDB API: lib/mongodb.js, GET /api/companies/:id   *)
(*     and GET /api/companies/search;                                      *)
(*   - the Redux Toolkit application: the user and post slices, their      *)
(*     thunks, and the UserList and UserFunction components under App;     *)
(*   - the useFetchData hook of the custom-hooks guide.                    *)
(* Text is modelled as sequences of one-character strings, so that case    *)
(* folding, hex validation and regular-expression matching are computed.   *)
(*                                                                         *)
(* The three API files carry an unresolved merge conflict whose two sides  *)
(* differ only in the database name ('assignment' / 'workbook') and in the *)
(* connection string; either side reads a collection named 'companies',    *)
(* whose contents are arbitrary here (see Collections).                    *)
(***************************************************************************)
EXTENDS Integers, Sequences, FiniteSets, TLC

VARIABLES
    \* ---- API: lib/mongodb.js
    nodeEnv,          \* process.env.NODE_ENV
    globalPromise,    \* global._mongoClientPromise (0: unset), a promise id
    clientPromise,    \* the default export of the last evaluation (0: none yet)
    promises,         \* promises[p]: state of the promise of the p-th connect()
    evals,            \* number of evaluations of lib/mongodb.js
    \* ---- API: the database and the request being handled
    coll,             \* the companies collection, in natural order
    req,              \* the request in progress or last answered
    \* ---- Redux application
    store,            \* [user |-> slice, post |-> slice]
    requests,         \* thunk requests, in dispatch order
    lastAction,       \* the action last passed to the root reducer
    nDispatched,      \* number of actions dispatched so far
    comps,            \* per component: mounted, renders, effectRuns, view, seen
    effectQueue,      \* passive effects scheduled and not yet run
    dirty,            \* components subscribed to a slice that changed, to re-render
    \* ---- useFetchData
    hook,             \* [mounted, url, data, loading, error]
    fetches,          \* fetches started by the hook's effect
    \* ---- useForm
    form              \* [initialValues, values, events]

apiVars == <<nodeEnv, globalPromise, clientPromise, promises, evals, coll, req>>
reduxVars == <<store, requests, lastAction, nDispatched, comps, effectQueue, dirty>>
hookVars == <<hook, fetches>>
formVars == <<form>>
vars == <<nodeEnv, globalPromise, clientPromise, promises, evals, coll, req,
          store, requests, lastAction, nDispatched, comps, effectQueue, dirty,
          hook, fetches, form>>

(***************************************************************************)
(* Bounds of the model.                                                    *)
(***************************************************************************)
\* evaluations of lib/mongodb.js (the first import and the module reloads)
MaxEvals == 2
\* documents in the largest collection; above Limit, so that a search can
\* match more documents than the handler returns
BulkSize == 51
\* thunk requests dispatched against one store
MaxRequests == 3
\* fetches one mounted useFetchData starts (the mount, then the url changes)
MaxFetches == 3
\* handler calls on the form of useForm
MaxFormEvents == 3

(***************************************************************************)
(* Text.                                                                   *)
(***************************************************************************)
Min(a, b) == IF a < b THEN a ELSE b

LowerOf == [A |-> "a", B |-> "b", C |-> "c", D |-> "d", E |-> "e", F |-> "f"]
UpperOf == [a |-> "A", b |-> "B", c |-> "C", d |-> "D", e |-> "E", f |-> "F"]

ToLowerChar(c) == IF c \in DOMAIN LowerOf THEN LowerOf[c] ELSE c
ToUpperChar(c) == IF c \in DOMAIN UpperOf THEN UpperOf[c] ELSE c
ToLower(s) == [i \in 1..Len(s) |-> ToLowerChar(s[i])]
ToUpper(s) == [i \in 1..Len(s) |-> ToUpperChar(s[i])]

HexDigits == <<"0", "1", "2", "3", "4", "5", "6", "7", "8", "9",
               "a", "b", "c", "d", "e", "f">>
HexChars == {HexDigits[i] : i \in 1..16} \cup {ToUpperChar(HexDigits[i]) : i \in 1..16}


(***************************************************************************)
(* MongoDB: ObjectId, documents, the companies collection, find.           *)
(***************************************************************************)
\* coll.find(filter).limit(50)
Limit == 50

\* ObjectId.isValid(id), for a string id: 24 hexadecimal characters.
IsValid(id) == Len(id) = 24 /\ \A i \in 1..Len(id) : id[i] \in HexChars

\* new ObjectId(id): the twelve bytes the hex string denotes, written as their
\* canonical (lower-case) hex string.  Two ObjectIds are equal iff these are.
ObjectId(id) == ToLower(id)

IdPrefix == <<"5", "0", "7", "f", "1", "f", "7", "7", "b", "c", "f",
              "8", "6", "c", "d", "7", "9", "9", "4", "3", "9", "0">>
\* the ObjectId of the i-th document written to the collection
IdOf(i) == ObjectId(IdPrefix \o <<HexDigits[(i \div 16) + 1], HexDigits[(i % 16) + 1]>>)

Company(i, n, l, sk) ==
    [_id |-> IdOf(i), name |-> n, location |-> l, hiringCriteria |-> [skills |-> sk]]

\* field and parameter values
Ab == <<"a", "b">>
AB == <<"A", "B">>
Bb == <<"b", "b">>
Xa == <<"a">>
XA == <<"A">>
Xb == <<"b">>
XB == <<"B">>

Acme == Company(201, Ab, Xb, <<Xa, Xb>>)
Bolt == Company(202, AB, XB, <<XA>>)
Core == Company(203, Bb, Xa, <<>>)

\* n documents that agree on every field but _id
Bulk(n) == [i \in 1..n |-> Company(i, Ab, Xb, <<Xa>>)]

\* the contents the collection may have: the program never writes to it
Collections ==
    { <<>>, <<Core>>, <<Core, Acme, Bolt>>, Bulk(Limit), Bulk(BulkSize) \o <<Bolt>> }

\* coll.findOne({_id: oid}): the first document with that _id, or null
NoDoc == [_id |-> <<>>]
FindOne(c, oid) ==
    IF \E i \in 1..Len(c) : c[i]._id = oid
    THEN c[CHOOSE i \in 1..Len(c) : c[i]._id = oid /\ \A j \in 1..(i - 1) : c[j]._id # oid]
    ELSE NoDoc

(***************************************************************************)
(* Regular expressions.  The patterns of the model are made of literal     *)
(* characters, of "." (any character) and of "(" which, never closed,      *)
(* makes the pattern a SyntaxError.                                        *)
(***************************************************************************)
IsValidPattern(src) == \A i \in 1..Len(src) : src[i] # "("

\* new RegExp(src, flags): ok is FALSE when the constructor throws
NewRegExp(src, flags) ==
    [ok |-> IsValidPattern(src), source |-> src, ignoreCase |-> ("i" \in flags)]

CharMatch(re, pc, c) ==
    \/ pc = "."
    \/ IF re.ignoreCase THEN ToLowerChar(pc) = ToLowerChar(c) ELSE pc = c

\* re.test(s): the pattern matches at some offset of s (it is not anchored)
RegexTest(re, s) ==
    \E off \in 0..(Len(s) - Len(re.source)) :
        \A k \in 1..Len(re.source) : CharMatch(re, re.source[k], s[off + k])

(***************************************************************************)
(* Query parameters and the filter.                                        *)
(***************************************************************************)
\* url.searchParams.get(k): null when the parameter is absent
Absent == [present |-> FALSE, v |-> <<>>]
Param(v) == [present |-> TRUE, v |-> v]
\* if (p): null and "" are falsy
Truthy(p) == p.present /\ p.v # <<>>

NoRegExp == NewRegExp(<<>>, {})
EmptyFilter ==
    [name |-> [on |-> FALSE, re |-> NoRegExp],
     location |-> [on |-> FALSE, re |-> NoRegExp],
     skill |-> [on |-> FALSE, in |-> <<>>]]

\* {$in: [v]} on an array field: some element equals v
InArray(arr, vs) == \E k \in 1..Len(arr) : \E m \in 1..Len(vs) : arr[k] = vs[m]

\* the filter's keys, were they alternatives ($or) rather than one document
MatchesAny(f, d) ==
    \/ f.name.on /\ RegexTest(f.name.re, d.name)
    \/ f.location.on /\ RegexTest(f.location.re, d.location)
    \/ f.skill.on /\ InArray(d.hiringCriteria.skills, f.skill.in)
\* a document matches a filter when it meets each key the filter has
Matches(f, d) ==
    /\ f.name.on => RegexTest(f.name.re, d.name)
    /\ f.location.on => RegexTest(f.location.re, d.location)
    /\ f.skill.on => InArray(d.hiringCriteria.skills, f.skill.in)

\* coll.find(filter): the matching documents in natural order
Find(c, f) == SelectSeq(c, LAMBDA d : Matches(f, d))
\* cursor.limit(n).toArray()
LimitToOneLess(s, n) == SubSeq(s, 1, Min(n - 1, Len(s)))
LimitTo(s, n) == SubSeq(s, 1, Min(n, Len(s)))


(***************************************************************************)
(* lib/mongodb.js                                                          *)
(***************************************************************************)
\* new MongoClient(uri).connect(): a new promise, pending
Connect(ps) == Append(ps, "pending")

\* One evaluation of the module (the first import, or a reload).  MONGODB_URI
\* is a non-empty literal, so the guard of line 10 never throws.
EvaluateModuleNoCache ==
    /\ evals < MaxEvals
    /\ evals' = evals + 1
    /\ promises' = Connect(promises)
    /\ clientPromise' = Len(promises')
    /\ globalPromise' = IF nodeEnv = "development" THEN clientPromise' ELSE globalPromise
    /\ UNCHANGED <<nodeEnv, coll, req>>
    /\ UNCHANGED <<reduxVars, hookVars, formVars>>
EvaluateModule ==
    /\ evals < MaxEvals
    /\ evals' = evals + 1
    /\ IF nodeEnv = "development"
       THEN IF globalPromise = 0
            THEN /\ promises' = Connect(promises)
                 /\ globalPromise' = Len(promises')
                 /\ clientPromise' = globalPromise'
            ELSE /\ clientPromise' = globalPromise
                 /\ UNCHANGED <<promises, globalPromise>>
       ELSE /\ promises' = Connect(promises)
            /\ clientPromise' = Len(promises')
            /\ UNCHANGED globalPromise
    /\ UNCHANGED <<nodeEnv, coll, req>>
    /\ UNCHANGED <<reduxVars, hookVars, formVars>>

\* The driver settles the promise of a connect(): the client, or an error.
ConnectSettle ==
    \E p \in 1..Len(promises) : \E outcome \in {"resolved", "rejected"} :
        /\ promises[p] = "pending"
        /\ promises' = [promises EXCEPT ![p] = outcome]
        /\ UNCHANGED <<nodeEnv, globalPromise, clientPromise, evals, coll, req>>
        /\ UNCHANGED <<reduxVars, hookVars, formVars>>

(***************************************************************************)
(* The two route handlers.  A handler runs to its next await in one step.  *)
(***************************************************************************)
NoError == [name |-> "", message |-> ""]
ParamsError == [name |-> "TypeError", message |-> "Cannot destructure property 'id'"]
UrlError == [name |-> "TypeError", message |-> "Invalid URL"]
ConnectError == [name |-> "MongoServerSelectionError", message |-> "connection refused"]
QueryError == [name |-> "MongoNetworkError", message |-> "connection closed"]
RegExpError == [name |-> "SyntaxError", message |-> "Invalid regular expression"]

NoBody == [kind |-> "none"]
\* NextResponse.json({ error: msg }, ...)
ErrorBody(msg) == [kind |-> "error", error |-> msg]
DocBody(d) == [kind |-> "doc", doc |-> d]
ListBody(items) == [kind |-> "list", count |-> Len(items), items |-> items]

IdleReq ==
    [kind |-> "none", pc |-> "idle", urlOk |-> TRUE, paramsOk |-> TRUE, id |-> <<>>,
     name |-> Absent, location |-> Absent, skill |-> Absent,
     promise |-> 0, awaited |-> FALSE, queried |-> FALSE, filter |-> EmptyFilter,
     thrown |-> NoError, logged |-> NoError, escaped |-> FALSE, status |-> 0, body |-> NoBody]

\* return NextResponse.json(body, { status })
Respond(r, status, body) == [r EXCEPT !.pc = "done", !.status = status, !.body = body]

\* a step of the handler throws (or an awaited promise rejects with) e
Throw(r, e) == [r EXCEPT !.thrown = e]

\* catch (err) { console.error(..., err); return 500 'Internal Server Error' }
CatchLeaky(r) ==
    [Respond(r, 500, ErrorBody(r.thrown.message)) EXCEPT !.logged = r.thrown]
Catch(r) ==
    [Respond(r, 500, ErrorBody("Internal Server Error")) EXCEPT !.logged = r.thrown]

\* try { ... } catch (err) { ... } around the whole body of either handler; r is
\* the request after a segment of the body ran.  An exception no try block
\* encloses would leave the handler (escaped).
Try(r) == IF r.thrown # NoError THEN Catch(r) ELSE r

\* ---- GET /api/companies/:id
\* const { id } = params; if (!ObjectId.isValid(id)) return 400
ByIdValidateNone(r) ==
    IF ~r.paramsOk THEN Throw(r, ParamsError)
    ELSE [r EXCEPT !.pc = "await", !.awaited = TRUE]
ByIdValidate(r) ==
    IF ~r.paramsOk THEN Throw(r, ParamsError)
    ELSE IF ~IsValid(r.id) THEN Respond(r, 400, ErrorBody("Invalid id"))
    ELSE [r EXCEPT !.pc = "await", !.awaited = TRUE]

\* the request's id parameter
Z24 == [i \in 1..24 |-> IF i = 1 THEN "z" ELSE "0"]
IdInputs == {IdOf(1), ToUpper(IdOf(201)), IdOf(250), Z24, <<"1", "2", "3">>, <<>>}

GetByIdStart ==
    \E pOk \in BOOLEAN : \E id \in IdInputs :
        /\ clientPromise # 0
        /\ req.pc \in {"idle", "done"}
        /\ pOk \/ id = <<>>
        /\ req' = Try(ByIdValidate([IdleReq EXCEPT !.kind = "byId", !.paramsOk = pOk,
                                                   !.id = id, !.promise = clientPromise]))
        /\ UNCHANGED <<nodeEnv, globalPromise, clientPromise, promises, evals, coll>>
        /\ UNCHANGED <<reduxVars, hookVars, formVars>>

\* const client = await clientPromise; ... coll.findOne({ _id: new ObjectId(id) })
GetByIdConnected ==
    /\ req.kind = "byId" /\ req.pc = "await"
    /\ promises[req.promise] # "pending"
    /\ req' = Try(IF promises[req.promise] = "rejected"
                  THEN Throw(req, ConnectError)
                  ELSE [req EXCEPT !.pc = "query", !.queried = TRUE])
    /\ UNCHANGED <<nodeEnv, globalPromise, clientPromise, promises, evals, coll>>
    /\ UNCHANGED <<reduxVars, hookVars, formVars>>

\* if (!doc) return 404; return NextResponse.json(doc, { status: 200 })
ByIdAnswerNoCheck(r, doc) == Respond(r, 200, DocBody(doc))
ByIdAnswer(r, doc) ==
    IF doc = NoDoc THEN Respond(r, 404, ErrorBody("Not found"))
    ELSE Respond(r, 200, DocBody(doc))

\* findOne settles: with the document or null, or with a driver error
GetByIdQueried ==
    \E dbOk \in BOOLEAN :
        /\ req.kind = "byId" /\ req.pc = "query"
        /\ req' = Try(IF dbOk
                      THEN ByIdAnswer(req, FindOne(coll, ObjectId(req.id)))
                      ELSE Throw(req, QueryError))
        /\ UNCHANGED <<nodeEnv, globalPromise, clientPromise, promises, evals, coll>>
        /\ UNCHANGED <<reduxVars, hookVars, formVars>>

\* ---- GET /api/companies/search
\* const url = new URL(request.url); searchParams.get(...) x 3
SearchParse(r) ==
    IF ~r.urlOk THEN Throw(r, UrlError)
    ELSE [r EXCEPT !.pc = "await", !.awaited = TRUE]

NameInputs == {Absent, Param(<<>>), Param(AB), Param(<<"a", ".">>), Param(<<"(">>)}
LocationInputs == {Absent, Param(XB)}
SkillInputs == {Absent, Param(<<>>), Param(Xa)}

SearchStart ==
    \E uOk \in BOOLEAN : \E n \in NameInputs : \E l \in LocationInputs :
      \E sk \in SkillInputs :
        /\ clientPromise # 0
        /\ req.pc \in {"idle", "done"}
        /\ uOk \/ (n = Absent /\ l = Absent /\ sk = Absent)
        /\ req' = Try(SearchParse([IdleReq EXCEPT !.kind = "search", !.urlOk = uOk,
                                                  !.name = n, !.location = l,
                                                  !.skill = sk, !.promise = clientPromise]))
        /\ UNCHANGED <<nodeEnv, globalPromise, clientPromise, promises, evals, coll>>
        /\ UNCHANGED <<reduxVars, hookVars, formVars>>

\* lines 21-24: the filter, or the error new RegExp throws
SkillConstraint(skill) == [on |-> TRUE, in |-> <<skill>>]
RegexConstraintNoFlag(src) == [on |-> TRUE, re |-> NewRegExp(src, {})]
RegexConstraint(src) == [on |-> TRUE, re |-> NewRegExp(src, {"i"})]

BuildFilter(r) ==
    LET f1 == IF Truthy(r.name)
              THEN [EmptyFilter EXCEPT !.name = RegexConstraint(r.name.v)]
              ELSE EmptyFilter
        f2 == IF Truthy(r.location)
              THEN [f1 EXCEPT !.location = RegexConstraint(r.location.v)]
              ELSE f1
        f3 == IF Truthy(r.skill)
              THEN [f2 EXCEPT !.skill = SkillConstraint(r.skill.v)]
              ELSE f2
    IN  f3

\* TRUE when one of the two new RegExp(...) calls throws
FilterThrows(r) ==
    \/ Truthy(r.name) /\ ~IsValidPattern(r.name.v)
    \/ Truthy(r.location) /\ ~IsValidPattern(r.location.v)

SearchConnected ==
    /\ req.kind = "search" /\ req.pc = "await"
    /\ promises[req.promise] # "pending"
    /\ req' = Try(IF promises[req.promise] = "rejected" THEN Throw(req, ConnectError)
                  ELSE IF FilterThrows(req) THEN Throw(req, RegExpError)
                  ELSE [req EXCEPT !.pc = "query", !.queried = TRUE,
                                   !.filter = BuildFilter(req)])
    /\ UNCHANGED <<nodeEnv, globalPromise, clientPromise, promises, evals, coll>>
    /\ UNCHANGED <<reduxVars, hookVars, formVars>>

\* const items = await coll.find(filter).limit(50).toArray(); return 200
SearchAnswerOr404(r, c) ==
    IF Find(c, r.filter) = <<>> THEN Respond(r, 404, ErrorBody("Not found"))
    ELSE Respond(r, 200, ListBody(LimitTo(Find(c, r.filter), Limit)))
SearchAnswer(r, c) == Respond(r, 200, ListBody(LimitTo(Find(c, r.filter), Limit)))

SearchQueried ==
    \E dbOk \in BOOLEAN :
        /\ req.kind = "search" /\ req.pc = "query"
        /\ req' = Try(IF dbOk THEN SearchAnswer(req, coll) ELSE Throw(req, QueryError))
        /\ UNCHANGED <<nodeEnv, globalPromise, clientPromise, promises, evals, coll>>
        /\ UNCHANGED <<reduxVars, hookVars, formVars>>


(***************************************************************************)
(* JSON values, as the store and the hooks hold them.                      *)
(***************************************************************************)
JNull == [kind |-> "null"]
JUndefined == [kind |-> "undefined"]
JStr(s) == [kind |-> "string", s |-> s]
JArr(items) == [kind |-> "array", items |-> items]
JObj(fields) == [kind |-> "object", fields |-> fields]

\* if (v): the falsy values among the above
JsTruthy(v) == v.kind \notin {"null", "undefined"} /\ v # JStr("")

(***************************************************************************)
(* redux/userSlice.js, redux/function.js, redux/store.js                   *)
(***************************************************************************)
FetchUsersType == "user/fetchUsers"
FetchPostType == "Post/fetchPost"
ThunkTypes == {FetchUsersType, FetchPostType}

\* the action creators createAsyncThunk generates
Pending(t, rid) ==
    [type |-> t, phase |-> "pending", requestId |-> rid,
     payload |-> JUndefined, error |-> [message |-> JUndefined]]
Fulfilled(t, rid, payload) ==
    [type |-> t, phase |-> "fulfilled", requestId |-> rid,
     payload |-> payload, error |-> [message |-> JUndefined]]
Rejected(t, rid, msg) ==
    [type |-> t, phase |-> "rejected", requestId |-> rid,
     payload |-> JUndefined, error |-> [message |-> JStr(msg)]]
\* what Redux dispatches when the store is created
InitAction ==
    [type |-> "@@redux/INIT", phase |-> "", requestId |-> 0,
     payload |-> JUndefined, error |-> [message |-> JUndefined]]

UserInitialState == [users |-> JArr(<<>>), loading |-> FALSE, error |-> JNull]
PostInitialState == [posts |-> JArr(<<>>), loading |-> FALSE, error |-> JNull]

userReducerClearing(state, action) ==
    IF action.type # FetchUsersType THEN state
    ELSE CASE action.phase = "pending" -> [state EXCEPT !.loading = TRUE, !.error = JNull]
           [] action.phase = "fulfilled" ->
                [state EXCEPT !.loading = FALSE, !.users = action.payload]
           [] action.phase = "rejected" ->
                [state EXCEPT !.loading = FALSE, !.error = action.error.message]
           [] OTHER -> state
userReducerStuck(state, action) ==
    IF action.type # FetchUsersType THEN state
    ELSE CASE action.phase = "pending" -> [state EXCEPT !.loading = TRUE]
           [] action.phase = "fulfilled" ->
                [state EXCEPT !.loading = FALSE, !.users = action.payload]
           [] action.phase = "rejected" -> [state EXCEPT !.error = action.error.message]
           [] OTHER -> state
userReducerFulfilledClears(state, action) ==
    IF action.type # FetchUsersType THEN state
    ELSE CASE action.phase = "pending" -> [state EXCEPT !.loading = TRUE]
           [] action.phase = "fulfilled" ->
                [state EXCEPT !.loading = FALSE, !.users = action.payload,
                              !.error = JNull]
           [] action.phase = "rejected" ->
                [state EXCEPT !.loading = FALSE, !.error = action.error.message]
           [] OTHER -> state
userReducerRejectedClears(state, action) ==
    IF action.type # FetchUsersType THEN state
    ELSE CASE action.phase = "pending" -> [state EXCEPT !.loading = TRUE]
           [] action.phase = "fulfilled" ->
                [state EXCEPT !.loading = FALSE, !.users = action.payload]
           [] action.phase = "rejected" ->
                [state EXCEPT !.loading = FALSE, !.users = JArr(<<>>),
                              !.error = action.error.message]
           [] OTHER -> state
\* userSlice.extraReducers
userReducer(state, action) ==
    IF action.type # FetchUsersType THEN state
    ELSE CASE action.phase = "pending" -> [state EXCEPT !.loading = TRUE]
           [] action.phase = "fulfilled" ->
                [state EXCEPT !.loading = FALSE, !.users = action.payload]
           [] action.phase = "rejected" ->
                [state EXCEPT !.loading = FALSE, !.error = action.error.message]
           [] OTHER -> state

\* UserFunction.extraReducers (the post slice)
postReducer(state, action) ==
    IF action.type # FetchPostType THEN state
    ELSE CASE action.phase = "pending" -> [state EXCEPT !.loading = TRUE]
           [] action.phase = "fulfilled" ->
                [state EXCEPT !.loading = FALSE, !.posts = action.payload]
           [] action.phase = "rejected" ->
                [state EXCEPT !.loading = FALSE, !.error = action.error.message]
           [] OTHER -> state

\* configureStore({ reducer: { user, post } })
rootReducer(st, action) ==
    [user |-> userReducer(st.user, action), post |-> postReducer(st.post, action)]

(***************************************************************************)
(* The environment of the thunks: what the network can answer.             *)
(***************************************************************************)
Leanne == JObj([id |-> 1, name |-> "Leanne Graham"])
Ervin == JObj([id |-> 2, name |-> "Ervin Howell"])
\* GET /users answers a JSON array of users
UserPayloads == {JArr(<<>>), JArr(<<Leanne>>), JArr(<<Leanne, Ervin>>)}
\* GET /posts/1 answers one JSON object
PostPayloads == {JObj([id |-> 1, title |-> "sunt aut"]), JObj([id |-> 1, title |-> "qui est"])}
PayloadsOf(t) == IF t = FetchUsersType THEN UserPayloads ELSE PostPayloads

\* the message of the TypeError fetch rejects with, and of the SyntaxError
\* response.json() rejects with
FetchFailedMessage == "Failed to fetch"
JsonFailedMessage == "Unexpected token < in JSON at position 0"

(***************************************************************************)
(* components/UserList.jsx, components/UserFunction.jsx, App.jsx           *)
(***************************************************************************)
\* the children of App that src/ holds, in the order App renders them
Components == <<"UserList", "UserFunction">>
ComponentSet == {Components[i] : i \in 1..Len(Components)}

\* the thunk a component's effect dispatches
ThunkOf(c) == IF c = "UserList" THEN FetchUsersType ELSE FetchPostType
\* useSelector((state) => state.user) / state.post
Selected(c, st) == IF c = "UserList" THEN st.user ELSE st.post

\* the dependency array of the component's effect: [dispatch], and the store's
\* dispatch function is the same at every render
EffectDepsOnState(c, st) == <<"dispatch", Selected(c, st)>>
EffectDeps(c, st) == <<"dispatch">>

Unrendered == [kind |-> "none"]
\* users.map((user) => <li>{user.name}</li>)
UserItems(users) == [i \in 1..Len(users.items) |-> users.items[i].fields.name]

\* UserList.jsx lines 13-25
UserListViewErrorFirst(s) ==
    IF JsTruthy(s.error) THEN [kind |-> "error", text |-> s.error]
    ELSE IF s.loading THEN [kind |-> "loading"]
    ELSE [kind |-> "list", items |-> UserItems(s.users)]
UserListView(s) ==
    IF s.loading THEN [kind |-> "loading"]
    ELSE IF JsTruthy(s.error) THEN [kind |-> "error", text |-> s.error]
    ELSE [kind |-> "list", items |-> UserItems(s.users)]

\* UserFunction.jsx lines 17-21
UserFunctionView(s) == [kind |-> "button"]

View(c, s) == IF c = "UserList" THEN UserListView(s) ELSE UserFunctionView(s)

NotMounted ==
    [mounted |-> FALSE, renders |-> 0, effectRuns |-> 0, deps |-> <<>>,
     seen |-> UserInitialState, view |-> Unrendered]

\* One call of the component function: the hooks read the store, the view is
\* returned, and the effect is scheduled when its dependencies changed.
RenderOf(c, cs, st) ==
    [mounted |-> TRUE, renders |-> cs.renders + 1, effectRuns |-> cs.effectRuns,
     deps |-> EffectDeps(c, st), seen |-> Selected(c, st), view |-> View(c, Selected(c, st))]
EffectScheduled(c, cs, st) == ~cs.mounted \/ cs.deps # EffectDeps(c, st)


(***************************************************************************)
(* The store at work: dispatch, the thunk lifecycle, rendering.            *)
(***************************************************************************)
\* the components react-redux re-renders after the store went from st to st2
\* by action a: those whose selected slice is a new object
Notified(st, st2, a) ==
    {c \in ComponentSet :
        /\ comps[c].mounted
        /\ \/ Selected(c, st2) # Selected(c, st)
           \/ a.phase = "fulfilled" /\ a.type = ThunkOf(c)}

\* store.dispatch(a), for a plain action
Dispatch(a) ==
    /\ store' = rootReducer(store, a)
    /\ lastAction' = a
    /\ nDispatched' = nDispatched + 1
    /\ dirty' = dirty \cup Notified(store, rootReducer(store, a), a)

\* dispatch(thunk()): the pending action, then the payload creator calls fetch
StartThunk(t, by) ==
    /\ Len(requests) < MaxRequests
    /\ requests' = Append(requests, [thunk |-> t, by |-> by, pc |-> "fetching",
                                     payload |-> JUndefined, message |-> ""])
    /\ Dispatch(Pending(t, Len(requests) + 1))

\* ReactDOM renders <App/>: every child renders once, then the effects of the
\* commit are run in order, before anything else happens
MountApp ==
    /\ \A c \in ComponentSet : ~comps[c].mounted
    /\ comps' = [c \in ComponentSet |-> RenderOf(c, comps[c], store)]
    /\ effectQueue' = SelectSeq(Components, LAMBDA c : EffectScheduled(c, comps[c], store))
    /\ UNCHANGED <<store, requests, lastAction, nDispatched, dirty>>
    /\ UNCHANGED <<apiVars, hookVars, formVars>>

\* useEffect(() => { dispatch(fetchUsers()) }, [dispatch])
RunEffect ==
    /\ effectQueue # <<>>
    /\ LET c == Head(effectQueue)
       IN  /\ StartThunk(ThunkOf(c), c)
           /\ comps' = [comps EXCEPT ![c].effectRuns = @ + 1]
    /\ effectQueue' = Tail(effectQueue)
    /\ UNCHANGED <<apiVars, hookVars, formVars>>

\* a subscribed component renders again after a store update
RenderDirty ==
    \E c \in dirty :
        /\ effectQueue = <<>>
        /\ comps' = [comps EXCEPT ![c] = RenderOf(c, comps[c], store)]
        /\ dirty' = dirty \ {c}
        /\ effectQueue' = IF EffectScheduled(c, comps[c], store) THEN <<c>> ELSE <<>>
        /\ UNCHANGED <<store, requests, lastAction, nDispatched>>
        /\ UNCHANGED <<apiVars, hookVars, formVars>>

\* network callbacks run once the render in progress is over
Quiescent == effectQueue = <<>> /\ dirty = {}

\* await fetch(API_URL) resolves (whatever the HTTP status)
FetchRespond(r) ==
    /\ r \in DOMAIN requests
    /\ Quiescent
    /\ requests[r].pc = "fetching"
    /\ requests' = [requests EXCEPT ![r].pc = "parsing"]
    /\ UNCHANGED <<store, lastAction, nDispatched, comps, effectQueue, dirty>>
    /\ UNCHANGED <<apiVars, hookVars, formVars>>

\* the thunk settles: its request record, and the action it dispatches
Settle(r, a) ==
    /\ requests' = [requests EXCEPT ![r].pc = a.phase, ![r].payload = a.payload,
                                    ![r].message = IF a.phase = "rejected"
                                                   THEN a.error.message.s ELSE ""]
    /\ Dispatch(a)
    /\ UNCHANGED <<comps, effectQueue>>
    /\ UNCHANGED <<apiVars, hookVars, formVars>>

\* await fetch(API_URL) rejects: the thunk dispatches rejected
FetchFail(r) ==
    /\ r \in DOMAIN requests
    /\ Quiescent
    /\ requests[r].pc = "fetching"
    /\ Settle(r, Rejected(requests[r].thunk, r, FetchFailedMessage))

\* return response.json(): the parsed body is the payload of fulfilled
JsonParsed(r) ==
    /\ r \in DOMAIN requests
    /\ Quiescent
    /\ requests[r].pc = "parsing"
    /\ \E payload \in PayloadsOf(requests[r].thunk) :
          Settle(r, Fulfilled(requests[r].thunk, r, payload))

\* response.json() rejects (the body is not JSON): the thunk dispatches rejected
JsonFail(r) ==
    /\ r \in DOMAIN requests
    /\ Quiescent
    /\ requests[r].pc = "parsing"
    /\ Settle(r, Rejected(requests[r].thunk, r, JsonFailedMessage))

\* any holder of the store dispatches one of the two thunks
DispatchThunk ==
    \E t \in ThunkTypes :
        /\ Quiescent
        /\ StartThunk(t, "store")
        /\ UNCHANGED <<comps, effectQueue>>
        /\ UNCHANGED <<apiVars, hookVars, formVars>>


(***************************************************************************)
(* useFetchData(url), from the custom-hooks guide.                         *)
(***************************************************************************)
Urls == {"/a", "/b"}
\* what response.json() may resolve with
HookData == {JObj([v |-> 1]), JObj([v |-> 2])}
\* what fetch, and response.json(), reject with
JError(name, message) == [kind |-> "error", name |-> name, message |-> message]
FetchTypeError == JError("TypeError", FetchFailedMessage)
JsonSyntaxError == JError("SyntaxError", JsonFailedMessage)

\* the three useState initial values
HookInitial ==
    [mounted |-> FALSE, url |-> "", data |-> JNull, loading |-> TRUE, error |-> JNull]

\* the effect: fetch(url).then(...).then(...).catch(...)
HookEffect(u) == fetches' = Append(fetches, [url |-> u, pc |-> "fetching"])

\* the first render of the component that calls the hook, and its effect
HookMount ==
    \E u \in Urls :
        /\ ~hook.mounted
        /\ hook' = [HookInitial EXCEPT !.mounted = TRUE, !.url = u]
        /\ HookEffect(u)
        /\ UNCHANGED <<apiVars, reduxVars, formVars>>

\* a later render with url u: the effect runs again iff [url] changed
HookRender ==
    \E u \in Urls :
        /\ hook.mounted
        /\ Len(fetches) < MaxFetches
        /\ hook' = [hook EXCEPT !.url = u]
        /\ IF u # hook.url THEN HookEffect(u) ELSE UNCHANGED fetches
        /\ UNCHANGED <<apiVars, reduxVars, formVars>>

\* fetch(url) resolves with a response
HookFetchRespond(i) ==
    /\ fetches[i].pc = "fetching"
    /\ fetches' = [fetches EXCEPT ![i].pc = "parsing"]
    /\ UNCHANGED hook
    /\ UNCHANGED <<apiVars, reduxVars, formVars>>

\* .then((data) => { setData(data); setLoading(false); })
OnData(h, d) == [h EXCEPT !.data = d, !.loading = FALSE]
\* .catch((error) => { setError(error); setLoading(false); })
OnError(h, e) == [h EXCEPT !.error = e, !.loading = FALSE]

HookFetchFail(i) ==
    /\ fetches[i].pc = "fetching"
    /\ fetches' = [fetches EXCEPT ![i].pc = "failed"]
    /\ hook' = OnError(hook, FetchTypeError)
    /\ UNCHANGED <<apiVars, reduxVars, formVars>>

HookJsonParsed(i) ==
    \E d \in HookData :
        /\ fetches[i].pc = "parsing"
        /\ fetches' = [fetches EXCEPT ![i].pc = "done"]
        /\ hook' = OnData(hook, d)
        /\ UNCHANGED <<apiVars, reduxVars, formVars>>

HookJsonFail(i) ==
    /\ fetches[i].pc = "parsing"
    /\ fetches' = [fetches EXCEPT ![i].pc = "failed"]
    /\ hook' = OnError(hook, JsonSyntaxError)
    /\ UNCHANGED <<apiVars, reduxVars, formVars>>

(***************************************************************************)
(* useForm of the custom-hooks guide, and the LoginForm that calls it.     *)
(***************************************************************************)
\* names of the inputs an event may come from, and what may be typed
FieldNames == {"username", "password", "email"}
FieldValues == {"", "a", "b"}
\* useForm({ username: '', password: '' }) of LoginForm, and another caller's
LoginInitialValues == [username |-> "", password |-> ""]
FormInitials == {LoginInitialValues, [email |-> "a"]}

\* const [values, setValues] = useState(initialValues)
useForm(initialValues) ==
    [initialValues |-> initialValues, values |-> initialValues, events |-> <<>>]

\* the updater of handleChange, on an object of one key only
SpreadDropped(prevValues, name, value) == [k \in {name} |-> value]
\* (prevValues) => ({ ...prevValues, [name]: value })
Spread(prevValues, name, value) ==
    [k \in DOMAIN prevValues \cup {name} |->
        IF k = name THEN value ELSE prevValues[k]]

ChangeEvent(name, value) == [kind |-> "change", name |-> name, value |-> value]
ResetEvent == [kind |-> "reset", name |-> "", value |-> ""]

\* const { name, value } = event.target; setValues(updater)
handleChange ==
    \E name \in FieldNames, value \in FieldValues :
        /\ Len(form.events) < MaxFormEvents
        /\ form' = [form EXCEPT !.values = Spread(form.values, name, value),
                                !.events = Append(@, ChangeEvent(name, value))]
        /\ UNCHANGED <<apiVars, reduxVars, hookVars>>

\* setValues(initialValues)
resetForm ==
    /\ Len(form.events) < MaxFormEvents
    /\ form' = [form EXCEPT !.values = form.initialValues,
                            !.events = Append(@, ResetEvent)]
    /\ UNCHANGED <<apiVars, reduxVars, hookVars>>

(***************************************************************************)
(* Initial states and specifications.                                      *)
(***************************************************************************)
ApiStart(envs, colls) ==
    /\ nodeEnv \in envs
    /\ coll \in colls
    /\ globalPromise = 0 /\ clientPromise = 0 /\ promises = <<>> /\ evals = 0
    /\ req = IdleReq

ReduxStart ==
    /\ store = [user |-> UserInitialState, post |-> PostInitialState]
    /\ requests = <<>>
    /\ lastAction = InitAction
    /\ nDispatched = 0
    /\ comps = [c \in ComponentSet |-> NotMounted]
    /\ effectQueue = <<>>
    /\ dirty = {}

HookStart == hook = HookInitial /\ fetches = <<>>

FormStart(initials) == form \in {useForm(i) : i \in initials}

Init ==
    /\ ApiStart({"development", "production"}, Collections)
    /\ ReduxStart
    /\ HookStart
    /\ FormStart({LoginInitialValues})

\* the browser programs, with the server side left at rest
InitClient ==
    /\ ApiStart({"production"}, {<<>>})
    /\ ReduxStart
    /\ HookStart
    /\ FormStart({LoginInitialValues})

NextApi ==
    \/ EvaluateModule
    \/ ConnectSettle
    \/ GetByIdStart
    \/ GetByIdConnected
    \/ GetByIdQueried
    \/ SearchStart
    \/ SearchConnected
    \/ SearchQueried

NextApp ==
    \/ MountApp
    \/ RunEffect
    \/ RenderDirty
    \/ \E r \in 1..Len(requests) : FetchRespond(r)
    \/ \E r \in 1..Len(requests) : FetchFail(r)
    \/ \E r \in 1..Len(requests) : JsonParsed(r)
    \/ \E r \in 1..Len(requests) : JsonFail(r)

NextStore == NextApp \/ DispatchThunk

NextHook ==
    \/ HookMount
    \/ HookRender
    \/ \E i \in 1..Len(fetches) : HookFetchRespond(i)
    \/ \E i \in 1..Len(fetches) : HookFetchFail(i)
    \/ \E i \in 1..Len(fetches) : HookJsonParsed(i)
    \/ \E i \in 1..Len(fetches) : HookJsonFail(i)

NextForm == handleChange \/ resetForm

Next == NextApi \/ NextStore \/ NextHook \/ NextForm

Spec == Init /\ [][Next]_vars

\* the API alone
SpecApi == Init /\ [][NextApi]_vars
\* the application App.jsx mounts
SpecApp == InitClient /\ [][NextApp]_vars
\* the same, where React runs what it scheduled and the network answers or fails
FairSpecApp ==
    /\ SpecApp
    /\ WF_vars(MountApp) /\ WF_vars(RunEffect) /\ WF_vars(RenderDirty)
    /\ \A r \in 1..MaxRequests :
        /\ WF_vars(FetchRespond(r) \/ FetchFail(r))
        /\ WF_vars(JsonParsed(r) \/ JsonFail(r))
\* the store under any dispatches of its two thunks
SpecStore == InitClient /\ [][NextStore]_vars
\* one component calling useFetchData
SpecHook == InitClient /\ [][NextHook]_vars
\* one form, under any sequence of its two handlers
InitForm ==
    /\ ApiStart({"production"}, {<<>>})
    /\ ReduxStart
    /\ HookStart
    /\ FormStart(FormInitials)
SpecForm == InitForm /\ [][NextForm]_vars


(***************************************************************************)
(* Properties of the API.                                                  *)
(***************************************************************************)
Stored == {coll[i] : i \in 1..Len(coll)}
IsHex24(id) == Len(id) = 24 /\ \A i \in 1..Len(id) : ToLowerChar(id[i]) \in
                   {"0", "1", "2", "3", "4", "5", "6", "7", "8", "9",
                    "a", "b", "c", "d", "e", "f"}
ByIdDone == req.kind = "byId" /\ req.pc = "done"
SearchDone == req.kind = "search" /\ req.pc = "done"
Failed == req.thrown # NoError

\* C1: a request to GET /api/companies/:id is answered in exactly one of four
\* ways: 400 {error:'Invalid id'} iff the id is not a valid ObjectId, 404
\* {error:'Not found'} iff it is valid and no document has that _id, 200 with
\* the document that has it iff there is one, 500 {error:'Internal Server
\* Error'} iff a step failed; nothing else is answered.
C1_ByIdOutcomes ==
    ByIdDone =>
        LET hits == {d \in Stored : d._id = ToLower(req.id)}
            o400 == req.status = 400 /\ req.body = ErrorBody("Invalid id")
            o404 == req.status = 404 /\ req.body = ErrorBody("Not found")
            o200 == req.status = 200 /\ req.body.kind = "doc" /\ req.body.doc \in hits
            o500 == req.status = 500 /\ req.body = ErrorBody("Internal Server Error")
        IN  /\ o400 \/ o404 \/ o200 \/ o500
            /\ o400 <=> (~Failed /\ ~IsHex24(req.id))
            /\ o404 <=> (~Failed /\ IsHex24(req.id) /\ hits = {})
            /\ o200 <=> (~Failed /\ IsHex24(req.id) /\ hits # {})
            /\ o500 <=> Failed

\* an id written in upper-case hex found the document stored under it
C1_Witness ==
    /\ ByIdDone /\ req.status = 200
    /\ req.id # req.body.doc._id


\* the stored documents that satisfy every constraint the request supplies
Matching == {d \in Stored : Matches(req.filter, d)}
Items == {req.body.items[i] : i \in 1..Len(req.body.items)}

\* C2: a request to GET /api/companies/search is answered 200 with {count,
\* items} or 500 with {error}, never with another status, whatever name,
\* location and skill are; when no step fails and no document matches, the
\* answer is 200 with an empty items list.
C2_SearchOutcomes ==
    SearchDone =>
        /\ req.status \in {200, 500}
        /\ req.status = 200 => req.body.kind = "list"
        /\ req.status = 500 => req.body.kind = "error"
        /\ (~Failed /\ Matching = {}) => (req.status = 200 /\ req.body.items = <<>>)

\* a search with a name constraint over a collection that has documents,
\* none of which matches
C2_Witness ==
    /\ SearchDone /\ req.status = 200
    /\ req.filter.name.on /\ coll # <<>>
    /\ req.body.items = <<>> /\ req.body.count = 0

\* C3: in both handlers a failure at any step (the URL or the params, the
\* awaited connection promise, the construction of the filter, the query) is
\* caught: the answer is 500 with the generic body, the exception does not
\* leave the handler, and the body does not carry the error's message.
C3_FailuresCaught ==
    req.pc = "done" =>
        /\ ~req.escaped
        /\ Failed =>
            /\ req.status = 500
            /\ req.body = ErrorBody("Internal Server Error")
            /\ req.body.error # req.thrown.message
            /\ req.logged = req.thrown

\* a name that is no regular expression made new RegExp throw
C3_Witness ==
    /\ SearchDone /\ req.thrown = RegExpError /\ req.status = 500
    /\ req.awaited /\ ~req.queried

\* C4, as claimed: whenever the search is answered 200, every stored document
\* that matches the parameters is in items (and items is empty when none
\* matches), whatever the collection holds.
C4_AllMatchesReturned ==
    (SearchDone /\ req.status = 200) =>
        /\ \A d \in Matching : d \in Items
        /\ Matching = {} => req.body.items = <<>>

\* C4, amended: whenever the search is answered 200, items holds only matching
\* documents; it holds all of them when at most Limit (50) match, and exactly
\* Limit of them when more match; it is empty when none matches.
C4_MatchesUpToLimit ==
    (SearchDone /\ req.status = 200) =>
        /\ Items \subseteq Matching
        /\ Cardinality(Items) = Len(req.body.items)
        /\ Cardinality(Matching) <= Limit => Items = Matching
        /\ Cardinality(Matching) > Limit => Len(req.body.items) = Limit
        /\ Matching = {} => req.body.items = <<>>

\* more documents match than the limit, and one of them is left out
C4_Witness ==
    /\ SearchDone /\ req.status = 200
    /\ Cardinality(Matching) > Limit
    /\ Len(req.body.items) = Limit
    /\ \E d \in Matching : d \notin Items

\* the characters of a pattern that stand for themselves
IsLiteral(v) == \A i \in 1..Len(v) : v[i] \notin {".", "("}
SameButCase(a, b) == ToLower(a) = ToLower(b)
NameHolds(d) == req.filter.name.on /\ RegexTest(req.filter.name.re, d.name)
LocationHolds(d) == req.filter.location.on /\ RegexTest(req.filter.location.re, d.location)
SkillHolds(d) == req.filter.skill.on /\ InArray(d.hiringCriteria.skills, req.filter.skill.in)

\* C5, as claimed: whenever the search is answered 200, for each of name,
\* location and skill that is supplied, a document whose field (for skill: one
\* of whose skills) differs from the parameter only in letter case satisfies
\* that parameter's constraint.
C5_CaseInsensitiveAll ==
    (SearchDone /\ req.status = 200) =>
        \A d \in Stored :
            /\ (Truthy(req.name) /\ SameButCase(d.name, req.name.v)) => NameHolds(d)
            /\ (Truthy(req.location) /\ SameButCase(d.location, req.location.v))
                   => LocationHolds(d)
            /\ (Truthy(req.skill) /\ \E k \in 1..Len(d.hiringCriteria.skills) :
                    SameButCase(d.hiringCriteria.skills[k], req.skill.v))
                   => SkillHolds(d)

\* C5, amended: name and location are matched as case-insensitive regular
\* expressions, so a document whose name (location) differs only in letter
\* case from a supplied parameter made of literal characters satisfies that
\* constraint; a supplied skill is matched exactly, letter case included,
\* against the elements of hiringCriteria.skills.
C5_CaseInsensitiveNameLocation ==
    (SearchDone /\ req.status = 200) =>
        \A d \in Stored :
            /\ (Truthy(req.name) /\ IsLiteral(req.name.v)
                    /\ SameButCase(d.name, req.name.v)) => NameHolds(d)
            /\ (Truthy(req.location) /\ IsLiteral(req.location.v)
                    /\ SameButCase(d.location, req.location.v)) => LocationHolds(d)
            /\ Truthy(req.skill) =>
                  (SkillHolds(d) <=> \E k \in 1..Len(d.hiringCriteria.skills) :
                                         d.hiringCriteria.skills[k] = req.skill.v)

\* a document is returned whose name and location are the parameters in the
\* other letter case, while a document whose skill is the parameter in the
\* other letter case is not
C5_Witness ==
    /\ SearchDone /\ req.status = 200
    /\ Truthy(req.name) /\ Truthy(req.skill)
    /\ \E d \in Items : d.name # req.name.v /\ SameButCase(d.name, req.name.v)
    /\ \E d \in Stored \ Items :
          /\ SameButCase(d.name, req.name.v)
          /\ \E k \in 1..Len(d.hiringCriteria.skills) :
                SameButCase(d.hiringCriteria.skills[k], req.skill.v)


\* C12: in the get-by-id handler the ObjectId check comes before all database
\* access: a request whose id is not a valid ObjectId is answered 400
\* 'Invalid id' at once, without awaiting the client promise and without a
\* query, whatever state the connection is in (rejected included).
C12_InvalidIdBeforeDatabase ==
    (req.kind = "byId" /\ req.paramsOk /\ ~IsHex24(req.id)) =>
        /\ req.pc = "done"
        /\ req.status = 400 /\ req.body = ErrorBody("Invalid id")
        /\ ~req.awaited /\ ~req.queried
        /\ ~Failed

\* an invalid id answered 400 while the connection promise of the request is
\* rejected
C12_Witness ==
    /\ ByIdDone /\ req.paramsOk /\ ~IsHex24(req.id)
    /\ req.promise # 0 /\ promises[req.promise] = "rejected"
    /\ req.status = 400

\* a parameter that is present and not the empty string
Supplied(p) == p.present /\ Len(p.v) > 0
\* d meets every constraint the request's parameters supply
Satisfies(d) ==
    /\ Supplied(req.name) =>
          \E off \in 0..(Len(d.name) - Len(req.name.v)) :
              \A k \in 1..Len(req.name.v) :
                  \/ req.name.v[k] = "."
                  \/ ToLowerChar(req.name.v[k]) = ToLowerChar(d.name[off + k])
    /\ Supplied(req.location) =>
          \E off \in 0..(Len(d.location) - Len(req.location.v)) :
              \A k \in 1..Len(req.location.v) :
                  \/ req.location.v[k] = "."
                  \/ ToLowerChar(req.location.v[k]) = ToLowerChar(d.location[off + k])
    /\ Supplied(req.skill) =>
          \E k \in 1..Len(d.hiringCriteria.skills) :
              d.hiringCriteria.skills[k] = req.skill.v

\* C13: in every 200 answer of the search, count is the number of elements
\* of items, items has at most 50 elements, and each element is a stored
\* document that satisfies every supplied constraint (all of them together);
\* an absent or empty parameter adds no constraint, so a request with no
\* parameter gets the first 50 documents, or all when there are fewer.
C13_CountLimitConjunction ==
    (SearchDone /\ req.status = 200) =>
        /\ req.body.count = Len(req.body.items)
        /\ Len(req.body.items) <= Limit
        /\ \A i \in 1..Len(req.body.items) :
              req.body.items[i] \in Stored /\ Satisfies(req.body.items[i])
        /\ req.filter.name.on = Supplied(req.name)
        /\ req.filter.location.on = Supplied(req.location)
        /\ req.filter.skill.on = Supplied(req.skill)
        /\ (~Supplied(req.name) /\ ~Supplied(req.location) /\ ~Supplied(req.skill)) =>
              Len(req.body.items) = Min(Limit, Len(coll))

\* name is the empty string, location and skill are supplied: some document
\* is returned, one that meets the location alone is not, and no constraint
\* came from the name
C13_Witness ==
    /\ SearchDone /\ req.status = 200
    /\ req.name = Param(<<>>) /\ Supplied(req.location) /\ Supplied(req.skill)
    /\ req.body.count > 0
    /\ \E d \in Stored :
          /\ d \notin Items
          /\ RegexTest(req.filter.location.re, d.location)
          /\ ~SkillHolds(d)

\* C14: in development mode, however many times lib/mongodb.js is
\* evaluated, connect() was called once and every evaluation exports that
\* one promise; in any other mode each evaluation calls connect() once on a
\* new client and exports the new promise.  So in development mode every
\* request is handled with the one promise, and once it is rejected each
\* request that awaits it is answered 500 and never reaches the query; no
\* second connect() is made.
C14_OnePromiseInDevelopment ==
    /\ evals = 0 => (promises = <<>> /\ clientPromise = 0)
    /\ (nodeEnv = "development" /\ evals > 0) =>
          /\ Len(promises) = 1
          /\ globalPromise = 1 /\ clientPromise = 1
          /\ req.kind # "none" => req.promise = 1
          /\ (promises[1] = "rejected" /\ req.awaited) =>
                /\ req.pc \in {"await", "done"} /\ ~req.queried
                /\ req.pc = "done" =>
                      (req.status = 500 /\ req.thrown = ConnectError)
    /\ (nodeEnv # "development" /\ evals > 0) =>
          /\ Len(promises) = evals
          /\ clientPromise = evals
          /\ globalPromise = 0

\* development mode, the module evaluated twice or more, the one connect()
\* rejected, and a search that awaited it answered 500
C14_Witness ==
    /\ nodeEnv = "development" /\ evals >= 2
    /\ promises = <<"rejected">>
    /\ SearchDone /\ req.urlOk /\ req.awaited
    /\ req.status = 500

(***************************************************************************)
(* Properties of the Redux application.                                    *)
(***************************************************************************)
InFlight(r) == requests[r].pc \in {"fetching", "parsing"}
RequestsBy(c) == {r \in 1..Len(requests) : requests[r].by = c}

\* C6: each slice handles the three lifecycle actions of its own thunk and
\* nothing else: pending sets loading and changes no other field; fulfilled
\* clears loading and stores the payload as it is; rejected clears loading and
\* stores the rejection's message, leaving users (posts) alone; any other
\* action leaves the slice as it was.
C6_SliceLifecycle ==
    [][nDispatched' # nDispatched =>
        LET a == lastAction'
            u == store.user
            u2 == store'.user
            q == store.post
            q2 == store'.post
        IN  /\ (a.type = FetchUsersType /\ a.phase = "pending") =>
                  u2.loading /\ u2.users = u.users /\ u2.error = u.error
            /\ (a.type = FetchUsersType /\ a.phase = "fulfilled") =>
                  ~u2.loading /\ u2.users = a.payload /\ u2.error = u.error
            /\ (a.type = FetchUsersType /\ a.phase = "rejected") =>
                  ~u2.loading /\ u2.users = u.users /\ u2.error = a.error.message
            /\ a.type # FetchUsersType => u2 = u
            /\ (a.type = FetchPostType /\ a.phase = "pending") =>
                  q2.loading /\ q2.posts = q.posts /\ q2.error = q.error
            /\ (a.type = FetchPostType /\ a.phase = "fulfilled") =>
                  ~q2.loading /\ q2.posts = a.payload /\ q2.error = q.error
            /\ (a.type = FetchPostType /\ a.phase = "rejected") =>
                  ~q2.loading /\ q2.posts = q.posts /\ q2.error = a.error.message
            /\ a.type # FetchPostType => q2 = q
    ]_vars

\* a rejection of fetchUsers was reduced after an earlier request had stored
\* its payload, and while a fetchPost request is pending
C6_Witness ==
    /\ lastAction.type = FetchUsersType /\ lastAction.phase = "rejected"
    /\ store.user.error = lastAction.error.message
    /\ store.user.users # JArr(<<>>)
    /\ ~store.user.loading
    /\ store.post.loading

\* C7: once UserList is mounted its effect dispatches fetchUsers; from the
\* initial state, loading is true while that request is pending; the request
\* eventually settles; and from then on loading is false, with users the
\* fetched payload if it was fulfilled and error the failure's message if it
\* was rejected.
C7_MountFetchSettle ==
    /\ store.user = UserInitialState
    /\ (comps["UserList"].mounted ~> RequestsBy("UserList") # {})
    /\ [](\A r \in RequestsBy("UserList") : InFlight(r) => store.user.loading)
    /\ <>(\E r \in RequestsBy("UserList") : ~InFlight(r))
    /\ [](\A r \in RequestsBy("UserList") :
            /\ requests[r].pc = "fulfilled" =>
                  ~store.user.loading /\ store.user.users = requests[r].payload
            /\ requests[r].pc = "rejected" =>
                  ~store.user.loading /\ store.user.error = JStr(requests[r].message))

\* the request of UserList was rejected and the component shows the message
C7_Witness ==
    /\ \E r \in RequestsBy("UserList") :
          requests[r].pc = "rejected" /\ store.user.error = JStr(requests[r].message)
    /\ ~store.user.loading
    /\ comps["UserList"].view.kind = "error"

\* C8: a component has at most one request in flight: the effect of UserList
\* and of UserFunction runs once per mount, and not again when the component
\* renders again after the store updates its own fetch produces.
C8_OneFetchPerMount ==
    \A c \in ComponentSet :
        /\ Cardinality({r \in RequestsBy(c) : InFlight(r)}) <= 1
        /\ Cardinality(RequestsBy(c)) = comps[c].effectRuns
        /\ comps[c].effectRuns <= 1
        /\ (comps[c].mounted /\ \A i \in 1..Len(effectQueue) : effectQueue[i] # c)
              => comps[c].effectRuns = 1

\* UserList rendered three times (the mount, after pending, after the request
\* settled) and dispatched once
C8_Witness ==
    /\ comps["UserList"].renders >= 3
    /\ Cardinality(RequestsBy("UserList")) = 1
    /\ \A r \in RequestsBy("UserList") : ~InFlight(r)

\* C9: UserList shows exactly one of three views of the slice state it read:
\* 'Loading...' whenever loading is true, even if error is set; otherwise
\* 'Error: <error>' whenever error is not null; otherwise the list of users.
\* So the list is shown only when loading is false and error is null.  With no
\* render pending, the state it read is the state of the slice.
C9_UserListView ==
    comps["UserList"].mounted =>
        LET s == comps["UserList"].seen
            v == comps["UserList"].view
        IN  /\ v.kind \in {"loading", "error", "list"}
            /\ s.loading => v.kind = "loading"
            /\ (~s.loading /\ s.error # JNull) => (v.kind = "error" /\ v.text = s.error)
            /\ (~s.loading /\ s.error = JNull) =>
                  /\ v.kind = "list"
                  /\ Len(v.items) = Len(s.users.items)
                  /\ \A i \in 1..Len(v.items) : v.items[i] = s.users.items[i].fields.name
            /\ v.kind = "list" => (~s.loading /\ s.error = JNull)
            /\ "UserList" \notin dirty => s = store.user

\* loading is true while an error is set, and 'Loading...' is shown
C9_Witness ==
    /\ comps["UserList"].mounted
    /\ comps["UserList"].seen.loading
    /\ comps["UserList"].seen.error # JNull
    /\ comps["UserList"].view.kind = "loading"

\* the requests of a thunk, and those that reached an outcome
RequestsOf(t) == {r \in 1..Len(requests) : requests[r].thunk = t}
Settled(t, outcome) == {r \in RequestsOf(t) : requests[r].pc = outcome}

\* C15, as claimed: whenever loading of the user slice is false, no fetchUsers
\* request is in flight, however the dispatches and the settlements
\* interleave, two or more overlapping requests included.
C15_NotLoadingNothingInFlight ==
    ~store.user.loading => \A r \in RequestsOf(FetchUsersType) : ~InFlight(r)

\* C16: no reducer case resets error.  In each slice an error that is set
\* stays set at every step, and it is set once a request of the slice's thunk
\* was rejected, also after a later request was fulfilled; UserList, when it
\* has rendered the current state with loading false and error set, shows the
\* error view, whatever users holds.
C16_ErrorNeverReset ==
    /\ [](/\ Settled(FetchUsersType, "rejected") # {} => store.user.error # JNull
          /\ Settled(FetchPostType, "rejected") # {} => store.post.error # JNull
          /\ (/\ comps["UserList"].mounted /\ "UserList" \notin dirty
              /\ ~store.user.loading /\ store.user.error # JNull) =>
                  comps["UserList"].view = [kind |-> "error", text |-> store.user.error])
    /\ [][/\ store.user.error # JNull => store'.user.error # JNull
          /\ store.post.error # JNull => store'.post.error # JNull]_vars

\* a fetchUsers request was rejected, then another was fulfilled with a
\* non-empty payload: users holds it, error is still set, and UserList shows
\* the error
C16_Witness ==
    /\ Settled(FetchUsersType, "rejected") # {}
    /\ lastAction.type = FetchUsersType /\ lastAction.phase = "fulfilled"
    /\ store.user.users = lastAction.payload /\ Len(store.user.users.items) > 0
    /\ store.user.error # JNull /\ ~store.user.loading
    /\ comps["UserList"].mounted /\ "UserList" \notin dirty
    /\ comps["UserList"].view.kind = "error"

\* C17: users holds the payload of the fetchUsers request fulfilled last,
\* whichever was dispatched last: a fulfilled action of fetchUsers stores the
\* payload of its own request, and every other action (a rejected one
\* included) leaves users as it was; before any request is fulfilled users
\* is the initial empty list.
C17_LastFulfilledWins ==
    /\ [](/\ Settled(FetchUsersType, "fulfilled") = {} =>
                store.user.users = UserInitialState.users
          /\ (lastAction.type = FetchUsersType /\ lastAction.phase = "fulfilled") =>
                /\ lastAction.requestId \in Settled(FetchUsersType, "fulfilled")
                /\ store.user.users = requests[lastAction.requestId].payload)
    /\ [][(/\ nDispatched' # nDispatched
           /\ ~(lastAction'.type = FetchUsersType /\ lastAction'.phase = "fulfilled")) =>
              store'.user.users = store.user.users]_vars

\* two overlapping fetchUsers requests, the one dispatched first fulfilled
\* last: users holds its payload, not that of the request dispatched last
C17_Witness ==
    /\ Len(requests) >= 2
    /\ requests[1].thunk = FetchUsersType /\ requests[2].thunk = FetchUsersType
    /\ requests[1].pc = "fulfilled" /\ requests[2].pc = "fulfilled"
    /\ requests[1].payload # requests[2].payload
    /\ lastAction.phase = "fulfilled" /\ lastAction.requestId = 1
    /\ store.user.users = requests[1].payload

(***************************************************************************)
(* Properties of useFetchData.                                             *)
(***************************************************************************)
\* C10: the hook starts with loading true, data null and error null; it
\* fetches at the mount and at each change of url; once a fetch settled,
\* loading is false and exactly one of data and error is not null, after any
\* sequence of url changes and fetch outcomes.
C10_ExactlyOneOfDataError ==
    /\ ~hook.mounted => (hook.loading /\ hook.data = JNull /\ hook.error = JNull)
    /\ hook.mounted => \E i \in 1..Len(fetches) : fetches[i].url = hook.url
    /\ (\E i \in 1..Len(fetches) : fetches[i].pc \in {"done", "failed"}) =>
          /\ ~hook.loading
          /\ (hook.data # JNull) # (hook.error # JNull)

(***************************************************************************)
(* Properties of useForm.                                                  *)
(***************************************************************************)
\* the handler call a step makes, if it makes one
FormEvent == form'.events[Len(form'.events)]
FormCalled == Len(form'.events) = Len(form.events) + 1

\* C11: handleChange for a field named n with value v sets values[n] to v
\* and leaves every other field as it was; resetForm sets values to the
\* initial values the hook was called with, whatever handleChange calls came
\* before; a resetForm that follows a resetForm changes nothing.
C11_FormFrame ==
    [][FormCalled =>
        /\ form'.initialValues = form.initialValues
        /\ FormEvent.kind = "change" =>
              /\ DOMAIN form'.values = DOMAIN form.values \cup {FormEvent.name}
              /\ form'.values[FormEvent.name] = FormEvent.value
              /\ \A k \in DOMAIN form.values \ {FormEvent.name} :
                    form'.values[k] = form.values[k]
        /\ FormEvent.kind = "reset" => form'.values = form.initialValues
        /\ (FormEvent.kind = "reset" /\ form.events # <<>>
              /\ form.events[Len(form.events)].kind = "reset") =>
              form'.values = form.values
    ]_vars

\* the login form after a field was typed in, a field of another name was
\* set, and resetForm was called once; the next step can call it again
C11_Witness ==
    /\ Len(form.events) = 3
    /\ form.events[1].kind = "change" /\ form.events[1].name = "username"
    /\ form.events[1].value = "a"
    /\ form.events[2].kind = "change" /\ form.events[2].name = "email"
    /\ form.events[3].kind = "reset"
    /\ form.initialValues = LoginInitialValues
    /\ form.values = LoginInitialValues

====
